---- MODULE Spec2Model ----
(***************************************************************************)
(* A model of the smartfile client (src/smartfile/__init__.py and          *)
(* src/smartfile/errors.py): URL generation from the per-class URI         *)
(* templates, the remove/poll and upload workflows of the path API, the    *)
(* construction of ResponseError, and the API facade with its credential   *)
(* lookup.                                                                 *)
(*                                                                         *)
(* Python strings are sequences of one-character strings, so that          *)
(* startswith, endswith, slicing and concatenation are computed as the     *)
(* code computes them.  A Python value is a record [t, s, n]: t is the     *)
(* type ("none", "str" or "int"), s the characters of a str, n the value   *)
(* of an int.                                                              *)
(***************************************************************************)
EXTENDS Integers, Sequences, FiniteSets, TLC

VARIABLES
    cls,        \* _gen_url: the class whose _api_uri is used (self)
    uri_args,   \* _gen_url: the uri_args argument, a sequence of values
    baseurl,    \* _gen_url: the baseurl argument (None or a str)
    url,        \* _gen_url: the returned URL (None before the call)
    outcome,    \* _gen_url: "pending", "return" or the exception raised
    call,       \* remove/poll: the call being executed and its arguments
    pc,         \* remove/poll: "idle", "polling" (inside poll's loop) or "done"
    checks,     \* poll: the local variable checks
    response,   \* poll: the local variable response (NoResponse while unassigned)
    requests,   \* the requests the session has performed, with their answers
    sleeps,     \* poll: the number of time.sleep(check_timeout) calls made
    result,     \* remove/poll: what the call returned or raised
    err_response, \* ResponseError(response): the response argument
    error,      \* ResponseError(response): the exception that results
    api_key,    \* API(api_key, api_pass): the api_key argument
    api_pass,   \* API(api_key, api_pass): the api_pass argument
    environ,    \* os.environ: the names of the variables that are set
    api,        \* the facade: "new", "ready" (constructed) or "failed"
    api_error,  \* the exception API.__init__ raised, if any
    api_session, \* API._session: the id of the facade's session (0: none)
    sessions,   \* the sessions requests.session() has created, with their auth
    objects,    \* the endpoint objects constructed, by id
    attrs,      \* the facade's _api_*_obj attributes: an object id, 0 if unset
    constructed, \* per attribute, how many times _get_api has called cls(...)
    got         \* the last property read and the handle id it returned

urlvars == <<cls, uri_args, baseurl, url, outcome>>

opvars == <<call, pc, checks, response, requests, sleeps, result>>

errvars == <<err_response, error>>

apivars == <<api_key, api_pass, environ, api, api_error, api_session, sessions,
             objects, attrs, constructed, got>>

vars == <<urlvars, opvars, errvars, apivars>>

----------------------------------------------------------------------------
(* Python values *)

None == [t |-> "none", s |-> <<>>, n |-> 0]

PyStr(chars) == [t |-> "str", s |-> chars, n |-> 0]

PyInt(i) == [t |-> "int", s |-> <<>>, n |-> i]

Digit(d) == <<"0", "1", "2", "3", "4", "5", "6", "7", "8", "9">>[d + 1]

RECURSIVE Decimal(_)
\* str(i) of a non-negative int i, as '{0}'.format(i) renders it
Decimal(i) == IF i < 10 THEN <<Digit(i)>> ELSE Decimal(i \div 10) \o <<Digit(i % 10)>>

\* '{0}'.format(v): the text a value is rendered as
Format(v) ==
    CASE v.t = "str" -> v.s
      [] v.t = "int" -> Decimal(v.n)
      [] OTHER -> <<"N", "o", "n", "e">>

\* s.startswith('/')
StartsWithSlash(s) == Len(s) > 0 /\ s[1] = "/"

\* s.endswith('/')
EndsWithSlash(s) == Len(s) > 0 /\ s[Len(s)] = "/"

----------------------------------------------------------------------------
(* The URI templates, one per endpoint class *)

BaseUrlDefault ==
    <<"h","t","t","p",":","/","/","l","o","c","a","l","h","o","s","t",":",
      "8","0","0","0","/","a","p","i","/","2","/">>

UserAPI_api_uri == <<PyStr(<<"u","s","e","r","/">>), None, PyStr(<<"/">>)>>

PathOperAPI_api_uri ==
    <<PyStr(<<"p","a","t","h","/","o","p","e","r","/">>), None, None, None, PyStr(<<"/">>)>>

PathTreeAPI_api_uri_slash ==
    <<PyStr(<<"p","a","t","h","/","t","r","e","e","/">>), None, PyStr(<<"/">>)>>

PathTreeAPI_api_uri == <<PyStr(<<"p","a","t","h","/","t","r","e","e","/">>), None>>

PathDataAPI_api_uri ==
    <<PyStr(<<"p","a","t","h","/">>), None, PyStr(<<"d","a","t","a","/">>)>>

PathAPI_api_uri == <<PyStr(<<"p","a","t","h","/">>), None, PyStr(<<"/">>)>>

RoleAPI_api_uri == <<PyStr(<<"r","o","l","e","/">>), None, PyStr(<<"/">>)>>

Classes == {"UserAPI", "PathOperAPI", "PathTreeAPI", "PathDataAPI", "PathAPI", "RoleAPI"}

\* self._api_uri of an instance of class c
ApiUri(c) ==
    CASE c = "UserAPI" -> UserAPI_api_uri
      [] c = "PathOperAPI" -> PathOperAPI_api_uri
      [] c = "PathTreeAPI" -> PathTreeAPI_api_uri
      [] c = "PathDataAPI" -> PathDataAPI_api_uri
      [] c = "PathAPI" -> PathAPI_api_uri
      [] OTHER -> RoleAPI_api_uri

----------------------------------------------------------------------------
(* _BaseAPI._gen_url *)

RECURSIVE PathsAppendingRest(_, _, _, _)
\* a variant that yields the arguments left over after the template
PathsAppendingRest(api_uri, args, i, j) ==
    IF i > Len(api_uri) THEN SubSeq(args, j, Len(args))
    ELSE IF api_uri[i].t = "none"
         THEN IF j > Len(args) THEN <<>>
              ELSE <<args[j]>> \o PathsAppendingRest(api_uri, args, i + 1, j + 1)
         ELSE <<api_uri[i]>> \o PathsAppendingRest(api_uri, args, i + 1, j)

RECURSIVE PathsSkipping(_, _, _, _)
\* a variant that skips an unfilled placeholder and goes on with the template
PathsSkipping(api_uri, args, i, j) ==
    IF i > Len(api_uri) THEN <<>>
    ELSE IF api_uri[i].t = "none"
         THEN IF j > Len(args) THEN PathsSkipping(api_uri, args, i + 1, j)
              ELSE <<args[j]>> \o PathsSkipping(api_uri, args, i + 1, j + 1)
         ELSE <<api_uri[i]>> \o PathsSkipping(api_uri, args, i + 1, j)

RECURSIVE Paths(_, _, _, _)
\* The generator (next(uri_iter) if x is None else x for x in self._api_uri),
\* from template position i with j-1 arguments consumed.  next() on the
\* exhausted iterator raises StopIteration inside the generator, which ends
\* the generator: the components from that placeholder on are never yielded.
Paths(api_uri, args, i, j) ==
    IF i > Len(api_uri) THEN <<>>
    ELSE IF api_uri[i].t = "none"
         THEN IF j > Len(args) THEN <<>>
              ELSE <<args[j]>> \o Paths(api_uri, args, i + 1, j + 1)
         ELSE <<api_uri[i]>> \o Paths(api_uri, args, i + 1, j)

\* One pass of the loop body of _gen_url: strip one leading '/', skip a
\* component that is then exactly '/', else join with one '/' unless the
\* URL already ends with one.
AppendSegment(u, arg) ==
    LET a == IF arg.t = "str" /\ StartsWithSlash(arg.s) THEN PyStr(Tail(arg.s)) ELSE arg
        sep == IF EndsWithSlash(u) THEN <<>> ELSE <<"/">>
    IN  IF a # PyStr(<<"/">>) THEN u \o sep \o Format(a) ELSE u

RECURSIVE JoinSegments(_, _)
\* for arg in paths: ... ; the URL after all components are joined
JoinSegments(u, paths) ==
    IF paths = <<>> THEN u
    ELSE JoinSegments(AppendSegment(u, Head(paths)), Tail(paths))

\* url = baseurl or self._baseurl
EffectiveBase(base) ==
    IF base.t = "none" \/ (base.t = "str" /\ base.s = <<>>) THEN BaseUrlDefault ELSE base.s

\* _gen_url(self, uri_args, baseurl) for an instance of class c
GenUrl(c, args, base) == JoinSegments(EffectiveBase(base), Paths(ApiUri(c), args, 1, 1))

----------------------------------------------------------------------------
(* Bounds and input sets of the URL specification *)

MaxArgs == 3

HostBase == <<"h","t","t","p",":","/","/","h","o","s","t","/","a","p","i","/","2","/">>

HostBaseNoSlash == <<"h","t","t","p",":","/","/","h","o","s","t","/","a","p","i","/","2">>

ArgValues ==
    { PyStr(<<"x">>), PyStr(<<"/","x">>), PyStr(<<"/","/","x">>), PyStr(<<"x","/">>),
      PyStr(<<"/">>), PyStr(<<>>), PyInt(42) }

BaseValues == { None, PyStr(<<>>), PyStr(HostBase), PyStr(HostBaseNoSlash) }

ArgLists == UNION { [1..n -> ArgValues] : n \in 0..MaxArgs }


----------------------------------------------------------------------------
(* Transport answers.  An answer is a response with a status code and a     *)
(* body, or a connection failure (status_code 0, body kind "connfail").     *)
(* A body is empty, text that is not JSON, the JSON null, or a JSON object  *)
(* with some of the keys detail, url and result (result = {status: ...}).   *)

Body(kind, keys, detail, u, status) ==
    [kind |-> kind, keys |-> keys, detail |-> detail, url |-> u, status |-> status,
     id |-> None]

Answer(code, body) == [status_code |-> code, body |-> body]

EmptyBody == Body("empty", {}, "", None, "")

TextBody == Body("text", {}, "", None, "")

NullBody == Body("null", {}, "", None, "")

ResultBody(status) == Body("object", {"result"}, "", None, status)

UrlBody(u) == Body("object", {"url"}, "", PyStr(u), "")

DetailBody(detail) == Body("object", {"detail"}, detail, None, "")

\* the body of a tree listing: a JSON object with the entry's id
IdBody(id) == [Body("object", {"id"}, "", None, "") EXCEPT !.id = id]

ConnFail == Answer(0, Body("connfail", {}, "", None, ""))

NoResponse == Answer(0, Body("unassigned", {}, "", None, ""))

IsResponse(a) == a.body.kind \notin {"connfail", "unassigned"}

\* response.json as the property of the requests release __init__.py is
\* written for: the decoded body, or None when the body does not decode.
\* "dict" stands for the decoded object, whose items are the body's.
JsonProperty(resp) == IF resp.body.kind = "object" THEN "dict" ELSE "None"

----------------------------------------------------------------------------
(* errors.py: ResponseError.__init__ *)

DefaultDetail == "Server error; check response for errors"

NoError == [type |-> "", status_code |-> 0, detail |-> ""]

Raised(type) == [type |-> type, status_code |-> 0, detail |-> ""]

\* ResponseError(response): the exception object constructed, or the
\* exception the constructor itself raises.  response.json() is called as a
\* method; it raises ValueError on a body that is empty or not JSON.
ResponseErrorInit(resp) ==
    IF resp.body.kind \in {"empty", "text"} THEN Raised("ValueError")
    ELSE IF resp.body.kind = "null" \/ resp.body.keys = {} \/ "detail" \notin resp.body.keys
         THEN [type |-> "ResponseError", status_code |-> resp.status_code,
               detail |-> DefaultDetail]
         ELSE [type |-> "ResponseError", status_code |-> resp.status_code,
               detail |-> resp.body.detail]

----------------------------------------------------------------------------
(* The remove/poll workflow *)

DefaultChecks == 5

MaxChecks == 6

NoResult == [kind |-> "none", value |-> NoResponse, exc |-> NoError]

Return(resp) == [kind |-> "return", value |-> resp, exc |-> NoError]

Raise(exc) == [kind |-> "raise", value |-> NoResponse, exc |-> exc]

NoCall == [op |-> "none", path |-> None, src |-> None, url |-> None, checks |-> 0]

NoFiles == [field |-> "", filename |-> None, source |-> None]

Request(method, u, data, answer) ==
    [method |-> method, url |-> u, data |-> data, files |-> NoFiles, answer |-> answer]

\* response_processor, the decorator of _create/_read/_update/_delete: a
\* transport failure becomes RequestError, a 2xx response is returned, any
\* other response is raised as ResponseError(response).
ResponseProcessor(answer) ==
    IF answer.body.kind = "connfail" THEN Raise(Raised("RequestError"))
    ELSE IF answer.status_code >= 200 /\ answer.status_code < 300 THEN Return(answer)
    ELSE Raise(ResponseErrorInit(answer))

RemoveSegment == PyStr(<<"r","e","m","o","v","e","/">>)

\* PathOperAPI.remove(path): _create({'path': path}, 'remove/'), the request
\* it performs when the transport gives answer
PathOperRemoveRequest(path, answer) ==
    Request("POST", PyStr(GenUrl("PathOperAPI", <<RemoveSegment>>, None)), path, answer)

\* a variant of the test that polls after every returned submission
RemoveShouldPollAlways(resp) == TRUE

\* PathAPI.remove: if response.status_code == 200
RemoveShouldPoll(resp) == resp.status_code = 200

\* response.json['url'] in PathAPI.remove: the URL, or the exception raised
\* when the body did not decode (None['url']) or has no such key
RemovePollUrl(resp) ==
    IF JsonProperty(resp) = "None" THEN Raised("TypeError")
    ELSE IF "url" \notin resp.body.keys THEN Raised("KeyError")
    ELSE NoError

\* a variant of the test that retries a non-200 response
PollConditionSuccessOnly(resp) ==
    IF JsonProperty(resp) = "None" THEN "TypeError"
    ELSE IF "result" \notin resp.body.keys THEN "KeyError"
    ELSE IF resp.body.status = "SUCCESS" THEN "break" ELSE "continue"

\* poll: response.status_code != 200 or
\*       response.json['result']['status'] == 'SUCCESS'
\* "break", "continue", or the exception the subscripts raise
PollCondition(resp) ==
    IF resp.status_code # 200 THEN "break"
    ELSE IF JsonProperty(resp) = "None" THEN "TypeError"
    ELSE IF "result" \notin resp.body.keys THEN "KeyError"
    ELSE IF resp.body.status = "SUCCESS" THEN "break" ELSE "continue"

\* a variant that takes two attempts off the budget per pending response
PollDecrementTwice(n) == n - 2

\* poll: checks -= 1
PollDecrement(n) == n - 1

\* a variant of the loop test that is off by one
PollLoopGuardInclusive(n) == n >= 0

\* poll: while checks > 0
PollLoopGuard(n) == n > 0

TaskUrl1 == HostBase \o <<"t","a","s","k","/","1","/">>

TaskUrl2 == HostBase \o <<"t","a","s","k","/","2","/">>

PollUrls == {PyStr(TaskUrl1), PyStr(TaskUrl2)}

RemovePaths == {PyStr(<<"/","a">>), PyStr(<<"/","b">>)}

SubmitAnswers ==
    { Answer(200, UrlBody(TaskUrl1)), Answer(200, UrlBody(TaskUrl2)),
      Answer(200, ResultBody("PENDING")), Answer(200, TextBody),
      Answer(202, UrlBody(TaskUrl1)),
      Answer(503, TextBody), Answer(503, DetailBody("throttled")), ConnFail }

PollAnswers ==
    { Answer(200, ResultBody("PENDING")), Answer(200, ResultBody("FAILURE")),
      Answer(200, ResultBody("SUCCESS")), Answer(200, TextBody),
      Answer(200, UrlBody(TaskUrl1)), Answer(404, DetailBody("gone")),
      Answer(503, TextBody), ConnFail }


----------------------------------------------------------------------------
(* _BaseAPI.__init__, _get_auth and the API facade *)

EnvKey == PyStr(<<"e","k">>)

EnvPass == PyStr(<<"e","p">>)

EnvNames == {"SMARTFILE_API_KEY", "SMARTFILE_API_PASS"}

\* _get_auth(api_key, api_pass) under the environment env: the pair it
\* returns, or the Exception it raises when a variable is missing
GetAuth(key, pass, env) ==
    IF key = None /\ pass = None
    THEN IF EnvNames \subseteq env
         THEN [exc |-> NoError, key |-> EnvKey, pass |-> EnvPass]
         ELSE [exc |-> Raised("Exception"), key |-> None, pass |-> None]
    ELSE [exc |-> NoError, key |-> key, pass |-> pass]

\* _BaseAPI.__init__(api_key, api_pass, session): self._session is the
\* session given (0 stands for None), or a new requests.session with the
\* auth _get_auth returns; sess are the sessions created so far
BaseInit(key, pass, session, env, sess) ==
    IF session # 0 THEN [exc |-> NoError, session |-> session, sessions |-> sess]
    ELSE LET auth == GetAuth(key, pass, env) IN
         IF auth.exc # NoError
         THEN [exc |-> auth.exc, session |-> 0, sessions |-> sess]
         ELSE [exc |-> NoError, session |-> Len(sess) + 1,
               sessions |-> Append(sess, [key |-> auth.key, pass |-> auth.pass])]

Endpoint(c, session, data, oper, tree) ==
    [cls |-> c, session |-> session, data |-> data, oper |-> oper, tree |-> tree]

\* PathAPI.__init__: kwargs['session'] = self._session, the session the
\* three endpoints of the path resource are constructed with
PathSubSession(self_session) == self_session

\* cls(None, None, session=session): the objects constructed, the first of
\* them (id Len(objs) + 1) the new instance; PathAPI constructs its data,
\* oper and tree endpoints after its own session is set
NewInstance(c, session, env, objs, sess) ==
    LET b == BaseInit(None, None, session, env, sess)
        n == Len(objs)
        sub == BaseInit(None, None, PathSubSession(b.session), env, b.sessions)
    IN  IF b.exc # NoError THEN [exc |-> b.exc, objects |-> objs, sessions |-> sess]
        ELSE IF c # "PathAPI"
        THEN [exc |-> NoError, objects |-> Append(objs, Endpoint(c, b.session, 0, 0, 0)),
              sessions |-> b.sessions]
        ELSE IF sub.exc # NoError THEN [exc |-> sub.exc, objects |-> objs, sessions |-> sess]
        ELSE [exc |-> NoError,
              objects |-> objs \o
                  << Endpoint("PathAPI", b.session, n + 2, n + 3, n + 4),
                     Endpoint("PathDataAPI", sub.session, 0, 0, 0),
                     Endpoint("PathOperAPI", sub.session, 0, 0, 0),
                     Endpoint("PathTreeAPI", sub.session, 0, 0, 0) >>,
              sessions |-> sub.sessions]

Attrs ==
    {"_api_path_obj", "_api_path_oper_obj", "_api_path_tree_obj", "_api_role_obj",
     "_api_user_obj"}

MaxObjects == 8

KeyValues == {None, PyStr(<<>>), PyStr(<<"k">>)}

PassValues == {None, PyStr(<<>>), PyStr(<<"p">>)}

NoAccess == [attr |-> "", handle |-> 0]

ErrIdle == err_response = NoResponse /\ error = NoError

ApiUnbuilt ==
    /\ api = "new"
    /\ api_error = NoError
    /\ api_session = 0
    /\ sessions = <<>>
    /\ objects = <<>>
    /\ attrs = [a \in Attrs |-> 0]
    /\ constructed = [a \in Attrs |-> 0]
    /\ got = NoAccess

ApiIdle == api_key = None /\ api_pass = None /\ environ = {} /\ ApiUnbuilt

UrlIdle ==
    /\ cls = "UserAPI"
    /\ uri_args = <<>>
    /\ baseurl = None
    /\ url = None
    /\ outcome = "pending"

----------------------------------------------------------------------------
(* PathAPI.upload *)

\* the index of the last '/' of p, 0 when it has none (p.rfind('/') + 1)
LastSlash(p) ==
    LET slashes == {i \in 1..Len(p) : p[i] = "/"} IN
    IF slashes = {} THEN 0 ELSE CHOOSE i \in slashes : \A k \in slashes : k <= i

RECURSIVE RStripSlashes(_)
\* head.rstrip('/')
RStripSlashes(p) ==
    IF EndsWithSlash(p) THEN RStripSlashes(SubSeq(p, 1, Len(p) - 1)) ELSE p

\* os.path.basename(p): what follows the last '/'
Basename(p) == SubSeq(p, LastSlash(p) + 1, Len(p))

\* os.path.dirname(p): what precedes the last '/', its trailing slashes
\* stripped unless it consists of slashes only
Dirname(p) ==
    LET head == SubSeq(p, 1, LastSlash(p)) IN
    IF RStripSlashes(head) # <<>> THEN RStripSlashes(head) ELSE head

GoodSource == PyStr(<<"l",".","t","x","t">>)

\* the local files open(src, 'rb') can open
LocalFiles == {GoodSource}

\* PathTreeAPI.read(path): _read(path), the request it performs when the
\* transport gives answer (children is False: no query parameters)
PathTreeReadRequest(path, answer) ==
    Request("GET", PyStr(GenUrl("PathTreeAPI", <<path>>, None)), None, answer)

\* a variant that names the uploaded file by the whole destination path
UploadFilesFullPath(dst, src) == [field |-> "file", filename |-> dst, source |-> src]

\* files = {'file': (basename(dst), open(src, 'rb'))}: one multipart field,
\* 'file', carrying the file name basename(dst) and the opened source
UploadFiles(dst, src) ==
    [field |-> "file", filename |-> PyStr(Basename(dst.s)), source |-> src]

\* tree.json['id'] in upload: no error, or the exception raised when the
\* body did not decode (None['id']) or has no such key
UploadTreeId(tree) ==
    IF JsonProperty(tree) = "None" THEN Raised("TypeError")
    ELSE IF "id" \notin tree.body.keys THEN Raised("KeyError")
    ELSE NoError

\* self._path_data_api.create(None, id, files=files): _create(None, id,
\* files=files), the request it performs when the transport gives answer
PathDataCreateRequest(id, files, answer) ==
    [Request("POST", PyStr(GenUrl("PathDataAPI", <<id>>, None)), None, answer)
        EXCEPT !.files = files]

UploadDestinations ==
    { PyStr(<<"/","a","/","b",".","t","x","t">>), PyStr(<<"b",".","t","x","t">>),
      PyStr(<<"/","b",".","t","x","t">>), PyStr(<<"/","a","/","c","/">>) }

UploadSources == {GoodSource, PyStr(<<"g","o","n","e">>)}

TreeAnswers ==
    { Answer(200, IdBody(PyInt(7))), Answer(200, IdBody(PyStr(<<"d","1">>))),
      Answer(200, TextBody), Answer(200, DetailBody("no id")),
      Answer(404, DetailBody("gone")), ConnFail }

CreateAnswers ==
    { Answer(200, IdBody(PyInt(9))), Answer(201, EmptyBody), Answer(503, TextBody), ConnFail }

OpIdle ==
    /\ call = NoCall
    /\ pc = "idle"
    /\ checks = 0
    /\ response = NoResponse
    /\ requests = <<>>
    /\ sleeps = 0
    /\ result = NoResult

InitOp == UrlIdle /\ OpIdle /\ ErrIdle /\ ApiIdle

\* PathAPI.remove(path), up to the return or to the entry of poll's loop:
\* the submission through PathOperAPI.remove, then the status test.
Remove(path, answer) ==
    LET sub == ResponseProcessor(answer)
        polls == /\ sub.kind = "return"
                 /\ RemoveShouldPoll(sub.value)
                 /\ RemovePollUrl(sub.value) = NoError
    IN
    /\ pc = "idle"
    /\ requests' = Append(requests, PathOperRemoveRequest(path, answer))
    /\ call' = [op |-> "remove", path |-> path, src |-> None,
                url |-> IF polls THEN sub.value.body.url ELSE None,
                checks |-> DefaultChecks]
    /\ IF sub.kind = "raise" THEN pc' = "done" /\ result' = sub
       ELSE IF ~RemoveShouldPoll(sub.value) THEN pc' = "done" /\ result' = sub
       ELSE IF RemovePollUrl(sub.value) # NoError
       THEN pc' = "done" /\ result' = Raise(RemovePollUrl(sub.value))
       ELSE pc' = "polling" /\ result' = NoResult
    /\ checks' = IF polls THEN DefaultChecks ELSE checks
    /\ UNCHANGED <<response, sleeps, urlvars, errvars, apivars>>

\* A direct call PathOperAPI.poll(url, checks=n)
Poll(u, n) ==
    /\ pc = "idle"
    /\ call' = [op |-> "poll", path |-> None, src |-> None, url |-> u, checks |-> n]
    /\ pc' = "polling"
    /\ checks' = n
    /\ UNCHANGED <<response, requests, sleeps, result, urlvars, errvars, apivars>>

\* One pass of poll's loop body: the read, the test, and either the break
\* (followed by the return) or the decrement and the sleep.
PollCheck(answer) ==
    /\ pc = "polling"
    /\ PollLoopGuard(checks)
    /\ requests' = Append(requests, Request("GET", call.url, None, answer))
    /\ IF answer.body.kind = "connfail"
       THEN /\ pc' = "done"
            /\ result' = Raise(Raised("ConnectionError"))
            /\ UNCHANGED <<checks, response, sleeps>>
       ELSE /\ response' = answer
            /\ CASE PollCondition(answer) = "break" ->
                      pc' = "done" /\ result' = Return(answer) /\ UNCHANGED <<checks, sleeps>>
                 [] PollCondition(answer) = "continue" ->
                      /\ checks' = PollDecrement(checks)
                      /\ sleeps' = sleeps + 1
                      /\ UNCHANGED <<pc, result>>
                 [] OTHER ->
                      /\ pc' = "done"
                      /\ result' = Raise(Raised(PollCondition(answer)))
                      /\ UNCHANGED <<checks, sleeps>>
    /\ UNCHANGED <<call, urlvars, errvars, apivars>>

\* poll's loop test fails: return response (unassigned when the loop body
\* never ran, which raises UnboundLocalError)
PollReturn ==
    /\ pc = "polling"
    /\ ~PollLoopGuard(checks)
    /\ pc' = "done"
    /\ result' = IF response = NoResponse THEN Raise(Raised("UnboundLocalError"))
                 ELSE Return(response)
    /\ UNCHANGED <<call, checks, response, requests, sleeps, urlvars, errvars, apivars>>

\* PathAPI.upload(dst, src): the tree read of dirname(dst), the opening of
\* src, and the create on the data endpoint at the id the tree read gave.
\* Each step that raises ends the call before the later ones.
Upload(dst, src, treeAnswer, createAnswer) ==
    LET dst_dir == PyStr(Dirname(dst.s))
        tree == ResponseProcessor(treeAnswer)
        files == UploadFiles(dst, src)
        creates == /\ tree.kind = "return"
                   /\ src \in LocalFiles
                   /\ UploadTreeId(tree.value) = NoError
    IN
    /\ pc = "idle"
    /\ call' = [op |-> "upload", path |-> dst, src |-> src, url |-> None, checks |-> 0]
    /\ pc' = "done"
    /\ requests' =
          IF creates
          THEN requests \o << PathTreeReadRequest(dst_dir, treeAnswer),
                              PathDataCreateRequest(tree.value.body.id, files, createAnswer) >>
          ELSE Append(requests, PathTreeReadRequest(dst_dir, treeAnswer))
    /\ result' =
          IF tree.kind = "raise" THEN tree
          ELSE IF src \notin LocalFiles THEN Raise(Raised("IOError"))
          ELSE IF UploadTreeId(tree.value) # NoError THEN Raise(UploadTreeId(tree.value))
          ELSE ResponseProcessor(createAnswer)
    /\ UNCHANGED <<checks, response, sleeps, urlvars, errvars, apivars>>

NextOp ==
    \/ \E path \in RemovePaths, answer \in SubmitAnswers : Remove(path, answer)
    \/ \E u \in PollUrls, n \in 0..MaxChecks : Poll(u, n)
    \/ \E answer \in PollAnswers : PollCheck(answer)
    \/ PollReturn
    \/ \E dst \in UploadDestinations, src \in UploadSources,
          treeAnswer \in TreeAnswers, createAnswer \in CreateAnswers :
             Upload(dst, src, treeAnswer, createAnswer)

SpecOp == InitOp /\ [][NextOp]_vars

\* a step of poll's loop: a pass of its body, or its exit
PollStep == (\E answer \in PollAnswers : PollCheck(answer)) \/ PollReturn

\* poll runs in the caller's thread: once entered, each read is answered (or
\* fails), each sleep ends, and the loop test is taken
SpecOpLive == SpecOp /\ WF_vars(PollStep)

----------------------------------------------------------------------------
(* The facade specification *)

InitApi ==
    /\ api_key \in KeyValues
    /\ api_pass \in PassValues
    /\ environ \in SUBSET EnvNames
    /\ ApiUnbuilt
    /\ UrlIdle
    /\ OpIdle
    /\ ErrIdle

\* API.__init__(api_key, api_pass): base = _BaseAPI(api_key, api_pass) and
\* self._session = base._session; no request is made
ApiInit ==
    LET b == BaseInit(api_key, api_pass, 0, environ, sessions) IN
    /\ api = "new"
    /\ IF b.exc # NoError
       THEN api' = "failed" /\ api_error' = b.exc /\ UNCHANGED <<api_session, sessions>>
       ELSE /\ api' = "ready"
            /\ api_session' = b.session
            /\ sessions' = b.sessions
            /\ UNCHANGED api_error
    /\ UNCHANGED <<api_key, api_pass, environ, objects, attrs, constructed, got,
                   urlvars, opvars, errvars>>

\* a variant of the test that constructs the endpoint on every access
GetApiMissingAlways(attr) == TRUE

\* _get_api: api = getattr(self, attr, None); if api is None
GetApiMissing(attr) == attrs[attr] = 0

\* _get_api(attr, cls): return the cached endpoint, constructing it with the
\* facade's session and caching it when the attribute is unset
GetApi(attr, c) ==
    LET new == NewInstance(c, api_session, environ, objects, sessions) IN
    /\ api = "ready"
    /\ IF GetApiMissing(attr)
       THEN /\ Len(new.objects) <= MaxObjects
            /\ constructed' = [constructed EXCEPT ![attr] = @ + 1]
            /\ IF new.exc # NoError
               THEN /\ got' = [attr |-> attr, handle |-> 0]
                    /\ UNCHANGED <<objects, sessions, attrs>>
               ELSE /\ objects' = new.objects
                    /\ sessions' = new.sessions
                    /\ attrs' = [attrs EXCEPT ![attr] = Len(objects) + 1]
                    /\ got' = [attr |-> attr, handle |-> Len(objects) + 1]
       ELSE /\ got' = [attr |-> attr, handle |-> attrs[attr]]
            /\ UNCHANGED <<objects, sessions, attrs, constructed>>
    /\ UNCHANGED <<api_key, api_pass, environ, api, api_error, api_session,
                   urlvars, opvars, errvars>>

\* the properties of the facade
path == GetApi("_api_path_obj", "PathAPI")

path_oper == GetApi("_api_path_oper_obj", "PathOperAPI")

path_tree == GetApi("_api_path_tree_obj", "PathTreeAPI")

role == GetApi("_api_role_obj", "RoleAPI")

user == GetApi("_api_user_obj", "UserAPI")

NextApi == ApiInit \/ path \/ path_oper \/ path_tree \/ role \/ user

SpecApi == InitApi /\ [][NextApi]_vars

----------------------------------------------------------------------------
(* The construction of a ResponseError from a non-success response *)

ErrorStatuses == {400, 401, 403, 404, 409, 500, 502, 503}

ErrorBodies ==
    { EmptyBody, TextBody, NullBody, Body("object", {}, "", None, ""),
      DetailBody("not found"), DetailBody(""), ResultBody("FAILURE"),
      UrlBody(TaskUrl1), Body("object", {"detail", "url"}, "denied", PyStr(TaskUrl2), "") }

InitErr ==
    /\ err_response \in { Answer(code, body) : code \in ErrorStatuses, body \in ErrorBodies }
    /\ error = NoError
    /\ UrlIdle
    /\ OpIdle
    /\ ApiIdle

\* ResponseError(response) is constructed (or its constructor raises)
NewResponseError ==
    /\ error = NoError
    /\ error' = ResponseErrorInit(err_response)
    /\ UNCHANGED <<err_response, urlvars, opvars, apivars>>

NextErr == NewResponseError

SpecErr == InitErr /\ [][NextErr]_vars

----------------------------------------------------------------------------
(* The URL specification: the inputs are drawn, then _gen_url is applied *)

InitUrl ==
    /\ cls \in Classes
    /\ uri_args \in ArgLists
    /\ baseurl \in BaseValues
    /\ url = None
    /\ outcome = "pending"
    /\ OpIdle
    /\ ErrIdle
    /\ ApiIdle

\* A call of self._gen_url(uri_args, baseurl=baseurl); the code has no raise
\* and the generator absorbs StopIteration, so the call returns.
GenUrlCall ==
    /\ outcome = "pending"
    /\ url' = PyStr(GenUrl(cls, uri_args, baseurl))
    /\ outcome' = "return"
    /\ UNCHANGED <<cls, uri_args, baseurl, opvars, errvars, apivars>>

NextUrl == GenUrlCall

SpecUrl == InitUrl /\ [][NextUrl]_vars

----------------------------------------------------------------------------
(* Properties of URL generation *)

\* the number of placeholders (None) of a template
NumPlaceholders(api_uri) == Cardinality({i \in 1..Len(api_uri) : api_uri[i].t = "none"})

\* how many placeholders the template has up to and including position i
PlaceholderRank(api_uri, i) == Cardinality({k \in 1..i : api_uri[k].t = "none"})

\* the number of leading template components whose placeholders n arguments fill
FilledLen(api_uri, n) ==
    Cardinality({i \in 1..Len(api_uri) : PlaceholderRank(api_uri, i) <= n})

\* the template's leading components with each placeholder replaced by the
\* argument of its rank
Filled(api_uri, args) ==
    [i \in 1..FilledLen(api_uri, Len(args)) |->
        IF api_uri[i].t = "none" THEN args[PlaceholderRank(api_uri, i)] ELSE api_uri[i]]

\* the part of an absolute URL after its 'http://'
PathPortion(u) == SubSeq(u, Len(<<"h","t","t","p",":","/","/">>) + 1, Len(u))

HasDoubleSlash(s) == \E i \in 1..(Len(s) - 1) : s[i] = "/" /\ s[i + 1] = "/"

Returned == outcome = "return"

\* C4 as stated: with fewer arguments than placeholders _gen_url fails with a
\* templating error and never returns a truncated URL.
C4_FailsOnTooFewArgs ==
    (outcome # "pending" /\ Len(uri_args) < NumPlaceholders(ApiUri(cls)))
        => outcome = "TemplatingError"

\* C4 amended: with fewer arguments than placeholders _gen_url raises
\* nothing; it returns the base joined with the template's components before
\* the first unfilled placeholder, the supplied arguments filling the
\* placeholders in order, and drops that placeholder and all that follows it.
C4_TruncatesOnTooFewArgs ==
    (outcome # "pending" /\ Len(uri_args) < NumPlaceholders(ApiUri(cls)))
        => /\ outcome = "return"
           /\ FilledLen(ApiUri(cls), Len(uri_args)) < Len(ApiUri(cls))
           /\ url = PyStr(JoinSegments(EffectiveBase(baseurl), Filled(ApiUri(cls), uri_args)))

\* C4 witness: the oper template (3 placeholders) resolved with one argument.
C4_Witness ==
    /\ Returned
    /\ cls = "PathOperAPI"
    /\ Len(uri_args) = 1
    /\ uri_args[1] = PyStr(<<"x","/">>)
    /\ baseurl = None
    /\ url = PyStr(BaseUrlDefault \o <<"p","a","t","h","/","o","p","e","r","/","x","/">>)

\* C5 as stated: with at least as many arguments as placeholders the URL is
\* the filled template followed by the extra arguments, none dropped.
C5_ExtrasAppended ==
    LET k == NumPlaceholders(ApiUri(cls)) IN
    (Returned /\ Len(uri_args) >= k)
        => url = PyStr(JoinSegments(EffectiveBase(baseurl),
                     Filled(ApiUri(cls), SubSeq(uri_args, 1, k))
                        \o SubSeq(uri_args, k + 1, Len(uri_args))))

\* C5 amended: with n >= k arguments the placeholders are filled by the first
\* k arguments in order and the URL is the base joined with exactly the
\* template's components; the n-k extra arguments are not appended.
C5_ExtrasDropped ==
    LET k == NumPlaceholders(ApiUri(cls)) IN
    (outcome # "pending" /\ Len(uri_args) >= k)
        => /\ outcome = "return"
           /\ Len(Filled(ApiUri(cls), SubSeq(uri_args, 1, k))) = Len(ApiUri(cls))
           /\ url = PyStr(JoinSegments(EffectiveBase(baseurl),
                        Filled(ApiUri(cls), SubSeq(uri_args, 1, k))))

\* C5 witness: the user template resolved with an id and one extra argument.
C5_Witness ==
    /\ Returned
    /\ cls = "UserAPI"
    /\ uri_args = <<PyInt(42), PyStr(<<"x">>)>>
    /\ baseurl = PyStr(HostBase)
    /\ url = PyStr(HostBase \o <<"u","s","e","r","/","4","2","/">>)

\* C6 as stated: the path portion of every resolved URL contains no '//'.
C6_NoDoubleSlash == Returned => ~HasDoubleSlash(PathPortion(url.s))

\* C7 as stated: the path-tree template with the int id 42 against
\* http://host/api/2/ resolves to http://host/api/2/path/tree/42/ .
C7_TreeUrlTrailingSlash ==
    (Returned /\ cls = "PathTreeAPI" /\ uri_args = <<PyInt(42)>> /\ baseurl = PyStr(HostBase))
        => url = PyStr(HostBase \o <<"p","a","t","h","/","t","r","e","e","/","4","2","/">>)

\* C7 amended: the path-tree template with the int id 42 against
\* http://host/api/2/ resolves to http://host/api/2/path/tree/42 , which
\* has no trailing '/'.
C7_TreeUrlNoTrailingSlash ==
    (Returned /\ cls = "PathTreeAPI" /\ uri_args = <<PyInt(42)>> /\ baseurl = PyStr(HostBase))
        => /\ url = PyStr(HostBase \o <<"p","a","t","h","/","t","r","e","e","/","4","2">>)
           /\ ~EndsWithSlash(url.s)

\* C7 witness: that resolution has been made.
C7_Witness ==
    /\ Returned
    /\ cls = "PathTreeAPI"
    /\ uri_args = <<PyInt(42)>>
    /\ baseurl = PyStr(HostBase)
    /\ url.t = "str"

----------------------------------------------------------------------------
(* Properties of the remove/poll workflow *)

\* the reads of the poll URL performed so far
Gets == SelectSeq(requests, LAMBDA r : r.method = "GET" /\ r.url = call.url)

\* every read (GET) performed so far
Reads == SelectSeq(requests, LAMBDA r : r.method = "GET")

\* the submissions performed so far
Posts == SelectSeq(requests, LAMBDA r : r.method = "POST")

HasStatus(a) == IsResponse(a) /\ a.body.kind = "object" /\ "result" \in a.body.keys

\* a 200 response whose result status is not SUCCESS
StillPending(a) == HasStatus(a) /\ a.status_code = 200 /\ a.body.status # "SUCCESS"

\* a response that is non-200, or 200 with result status SUCCESS
Terminal(a) ==
    IsResponse(a) /\ (a.status_code # 200 \/ (HasStatus(a) /\ a.body.status = "SUCCESS"))

PendingAnswer == Answer(200, ResultBody("PENDING"))

SuccessAnswer == Answer(200, ResultBody("SUCCESS"))

\* poll's loop has been entered, by a direct call or through remove
Polled == call.url # None

\* C1: no read follows a poll response that is non-200 or 200/SUCCESS; poll
\* returns exactly that response; answers PENDING, PENDING, SUCCESS make
\* exactly 3 reads and return the SUCCESS response.
C1_PollStopsAtFirstTerminal ==
    LET g == Gets IN
    /\ \A i \in 1..(Len(g) - 1) : ~Terminal(g[i].answer)
    /\ (Len(g) > 0 /\ Terminal(g[Len(g)].answer))
          => (pc = "done" /\ result = Return(g[Len(g)].answer))
    /\ (Len(g) >= 3 /\ g[1].answer = PendingAnswer /\ g[2].answer = PendingAnswer
           /\ g[3].answer = SuccessAnswer)
          => (Len(g) = 3 /\ pc = "done" /\ result = Return(SuccessAnswer))

\* C1 witness: PENDING, PENDING, SUCCESS were answered and poll has returned.
C1_Witness ==
    /\ pc = "done"
    /\ Len(Gets) = 3
    /\ Gets[1].answer = PendingAnswer
    /\ Gets[2].answer = PendingAnswer
    /\ Gets[3].answer = SuccessAnswer
    /\ result = Return(SuccessAnswer)

\* C2: when poll runs with the default budget and every answer is a 200 with
\* a non-SUCCESS status, it returns after exactly 5 reads, and what it
\* returns is the last such response, not an exception.
C2_ExhaustedBudgetReturnsLastPending ==
    LET g == Gets IN
    (pc = "done" /\ Polled /\ call.checks = DefaultChecks
        /\ \A i \in 1..Len(g) : StillPending(g[i].answer))
        => /\ Len(g) = 5
           /\ result.kind = "return"
           /\ result.value = g[Len(g)].answer
           /\ result.exc = NoError

\* C2 witness: five PENDING answers under the default budget, poll returned.
C2_Witness ==
    /\ pc = "done"
    /\ call.checks = DefaultChecks
    /\ Len(Gets) = 5
    /\ \A i \in 1..5 : Gets[i].answer = PendingAnswer
    /\ result = Return(PendingAnswer)

\* C3: PathAPI.remove performs exactly one submission, the POST to the oper
\* endpoint's remove URL; it reads a poll URL only if the submission's status
\* is 200, and then the URL the submission returned; a submission answered
\* 503 is the only request and its outcome is what the caller gets.
C3_RemoveSubmitsOnceThenPollsOn200 ==
    call.op = "remove" =>
        LET sub == requests[1].answer IN
        /\ Len(Posts) = 1
        /\ requests[1].method = "POST"
        /\ requests[1].url = PyStr(BaseUrlDefault
               \o <<"p","a","t","h","/","o","p","e","r","/","r","e","m","o","v","e","/">>)
        /\ requests[1].data = call.path
        /\ (pc = "polling" \/ Len(Reads) > 0)
              => (sub.status_code = 200 /\ call.url = sub.body.url)
        /\ \A i \in 1..Len(Reads) : Reads[i].url = sub.body.url
        /\ sub.status_code # 200
              => (Len(requests) = 1 /\ pc = "done" /\ result = ResponseProcessor(sub))

\* C3 witness: a remove whose submission was answered 503 has ended.
C3_Witness ==
    /\ call.op = "remove"
    /\ pc = "done"
    /\ requests[1].answer.status_code = 503
    /\ Len(requests) = 1
    /\ result.kind = "raise"

----------------------------------------------------------------------------
(* Properties of ResponseError, the facade and the credentials *)

\* C8 as stated: constructing a ResponseError always succeeds, carries the
\* status code, and its detail is the body's 'detail' value when the body is
\* JSON with that field and the default message otherwise (empty body, body
\* that is not JSON, JSON without 'detail').
C8_ResponseErrorAlwaysConstructed ==
    error # NoError =>
        /\ error.type = "ResponseError"
        /\ error.status_code = err_response.status_code
        /\ error.detail =
              IF err_response.body.kind = "object" /\ "detail" \in err_response.body.keys
              THEN err_response.body.detail
              ELSE DefaultDetail

\* the class each property of the facade constructs
AttrClass(a) ==
    CASE a = "_api_path_obj" -> "PathAPI"
      [] a = "_api_path_oper_obj" -> "PathOperAPI"
      [] a = "_api_path_tree_obj" -> "PathTreeAPI"
      [] a = "_api_role_obj" -> "RoleAPI"
      [] OTHER -> "UserAPI"

\* every handle was constructed at most once, is of its property's class,
\* and every endpoint object uses the one session of the facade
HandlesOnceOnOneSession ==
    api = "ready" =>
        /\ Len(sessions) = 1
        /\ api_session = 1
        /\ \A a \in Attrs :
              /\ constructed[a] <= 1
              /\ attrs[a] # 0 => (constructed[a] = 1 /\ objects[attrs[a]].cls = AttrClass(a))
        /\ \A i \in 1..Len(objects) : objects[i].session = api_session
        /\ attrs["_api_path_obj"] # 0 =>
              LET p == objects[attrs["_api_path_obj"]] IN
              /\ objects[p.data].cls = "PathDataAPI"
              /\ objects[p.oper].cls = "PathOperAPI"
              /\ objects[p.tree].cls = "PathTreeAPI"
              /\ {objects[p.data].session, objects[p.oper].session, objects[p.tree].session}
                    = {api_session}
        /\ got.attr # "" => (got.handle # 0 /\ got.handle = attrs[got.attr])

\* a cached handle is never replaced, and no constructed object changes
HandleKept ==
    /\ \A a \in Attrs : attrs[a] # 0 => attrs'[a] = attrs[a]
    /\ SubSeq(objects', 1, Len(objects)) = objects

\* C9: after any sequence of reads of path, path_oper, path_tree, role and
\* user, each handle has been constructed at most once, a repeated read
\* returns the same handle, and every handle, the path resource's data, oper
\* and tree endpoints included, uses the facade's single session.
C9_HandlesCachedOnSharedSession == []HandlesOnceOnOneSession /\ [][HandleKept]_vars

\* C9 witness: all five properties were read, and path, the first one
\* constructed, was read again last and returned the first handle.
C9_Witness ==
    /\ api = "ready"
    /\ \A a \in Attrs : attrs[a] # 0 /\ constructed[a] = 1
    /\ Len(objects) = 8
    /\ attrs["_api_path_obj"] = 1
    /\ got = [attr |-> "_api_path_obj", handle |-> 1]
    /\ \A i \in 1..Len(objects) : objects[i].session = api_session

\* a source yields both a key and a secret: both explicit values are given
\* and not blank, or both are unset and both environment variables are set
YieldsBoth ==
    \/ /\ api_key.t = "str" /\ api_key.s # <<>>
       /\ api_pass.t = "str" /\ api_pass.s # <<>>
    \/ api_key = None /\ api_pass = None /\ EnvNames \subseteq environ

\* C10 as stated: whenever neither source yields both a key and a secret,
\* initialization fails with an error, before any request is made.
C10_FailsWithoutCredentials ==
    (api # "new" /\ ~YieldsBoth)
        => (api = "failed" /\ api_error # NoError /\ requests = <<>>)

----------------------------------------------------------------------------
(* Properties of upload *)

\* the tree read of an upload returned a listing that has an id
TreeGaveId(a) ==
    /\ IsResponse(a)
    /\ a.status_code >= 200 /\ a.status_code < 300
    /\ a.body.kind = "object" /\ "id" \in a.body.keys

----------------------------------------------------------------------------
(* Properties of poll's attempt budget *)

\* the number of reads of the poll URL answered 200 with a non-SUCCESS status
PendingReads == Len(SelectSeq(Gets, LAMBDA r : StillPending(r.answer)))

\* poll has been entered with a budget of at least one attempt
Budgeted == Polled /\ call.checks >= 1

\* the budget left is the budget given less one per pending response, the
\* reads never exceed the budget, a finished poll has read at least once,
\* and a poll that saw only pending responses ended by using up the budget
BudgetCounts ==
    Budgeted =>
        /\ checks = call.checks - PendingReads
        /\ checks >= 0
        /\ Len(Gets) <= call.checks
        /\ pc = "done" => Len(Gets) >= 1
        /\ (pc = "done" /\ PendingReads = Len(Gets)) => (checks = 0 /\ Len(Gets) = call.checks)

\* a step inside the loop takes exactly one attempt off the budget when its
\* read was answered pending, and none otherwise
BudgetStep ==
    (Budgeted /\ pc = "polling") =>
        checks' = checks - (IF PendingReads' > PendingReads THEN 1 ELSE 0)

\* C12: for every budget n >= 1 and every sequence of answers, poll
\* terminates after at least 1 and at most n reads of the poll URL; the
\* budget is the only bound of the loop and goes down by exactly one per
\* pending response.
C12_PollBoundedByBudget ==
    /\ []BudgetCounts
    /\ [][BudgetStep]_vars
    /\ (Budgeted /\ pc = "polling") ~> (pc = "done")

\* C12 witness: poll(url, checks=3) saw three pending responses and returned
\* after exactly three reads with its budget used up.
C12_Witness ==
    /\ call.op = "poll"
    /\ call.checks = 3
    /\ pc = "done"
    /\ Len(Gets) = 3
    /\ PendingReads = 3
    /\ checks = 0
    /\ sleeps = 3
    /\ result = Return(Gets[3].answer)

====
